---- MODULE Spec2Model ----
(***************************************************************************)
(* The embedding and bridging layer of the WKWebView backend               *)
(* (src/src/embedded_webview/wkwebview/mod.rs): the callback slots an      *)
(* InnerEmbeddedWebview owns, the native trampolines that read them        *)
(* (did_receive, navigation_policy, start_task), the custom-protocol       *)
(* responder, the pending-script buffer and the steps of Drop.             *)
(***************************************************************************)
EXTENDS Integers, Sequences, FiniteSets, TLC

(***************************************************************************)
(* Bounds of the model.                                                    *)
(***************************************************************************)
\* native callback invocations (IPC messages, policy decisions) per run
MaxEvents == 2
\* intercepted custom-protocol load tasks per run
MaxTasks == 1
\* header fields of a host response
MaxHeaders == 1
\* bytes of a response body
MaxBody == 2
\* evaluation requests per run
MaxScripts == 4
\* initialization scripts of a widget
MaxInitScripts == 2

(***************************************************************************)
(* Identities and small input domains.                                     *)
(***************************************************************************)
Widgets == {"w1", "w2"}
Schemes == {"app", "wry"}
\* the dyn-Fn slots of one widget, named after the ivar that carries them
FixedSlots ==
  {"ipc", "navigation_policy_function", "on_page_load_function", "started", "completed"}
Slots == FixedSlots \cup Schemes
\* page messages as UTF-8 bytes: "pi", one with an interior NUL, "i" and ""
Messages == {<<112, 105>>, <<112, 0, 105>>, <<105>>, <<>>}
Scripts == {"a", "b"}

\* custom_protocols: Vec<(String, handler)>, the orders a host can supply
ProtocolLists ==
  {<<>>, <<"app">>, <<"wry">>, <<"app", "wry">>, <<"wry", "app">>}

Attributes ==
  [ipc_handler : BOOLEAN,
   navigation_handler : BOOLEAN,
   new_window_req_handler : BOOLEAN,
   download_started_handler : BOOLEAN,
   download_completed_handler : BOOLEAN,
   on_page_load_handler : BOOLEAN,
   custom_protocols : ProtocolLists]

NoAttributes ==
  [ipc_handler |-> FALSE,
   navigation_handler |-> FALSE,
   new_window_req_handler |-> FALSE,
   download_started_handler |-> FALSE,
   download_completed_handler |-> FALSE,
   on_page_load_handler |-> FALSE,
   custom_protocols |-> <<>>]

Range(s) == {s[i] : i \in DOMAIN s}

VARIABLES
  attrs,            \* attrs[w]: the EmbeddedWebViewAttributes w was built from
  life,             \* life[w]: "absent", "alive", a position inside Drop, "dropped"
  drop_i,           \* drop_i[w]: index of the protocol_ptrs loop of Drop
  slot,             \* slot[w][s]: "null" | "live" | "freed" (the boxed closure)
  releases,         \* releases[w][s]: how many times the box of s was freed
  msgHandler,       \* msgHandler[w]: the manager holds the "ipc" message handler
  inSuperview,      \* inSuperview[w]: the webview is a subview of the ns_view
  retained,         \* retained[w]: native references the struct still owns
  nativeCalls,      \* nativeCalls[w]: the calls new made on the native objects, in order
  new_result,       \* new_result[w]: "none", or how the call of new for w ended
  ipcLog,           \* ipcLog[w]: messages the host ipc handler received
  navLog,           \* navLog[w]: decisions handed to the native decision handler
  useAfterFree,     \* <<w, s>>: a trampoline called the closure of s after its free
  crashed,          \* the process faulted
  nEvents,          \* native callback invocations so far
  posted,           \* posted[w]: the messages the page of w posted, in order (history)
  downloads,        \* downloads[w]: the downloads the engine began for w, in order
  tasks,            \* the intercepted load tasks, in start order
  pending_scripts,  \* pending_scripts[w]: None or the buffered sources
  executed,         \* executed[w]: the evaluateJavaScript calls on the webview, in order
  evals,            \* evals[w]: the eval calls of the host, in order (history)
  mutex,            \* mutex[w]: who holds the lock of pending_scripts
  eval_call,        \* eval_call[w]: None or the eval call in progress
  flush_pc,         \* flush_pc[w]: position of the ready transition in progress
  fired             \* fired[w]: indices of executed[w] whose completion handler ran

lifeVars ==
  <<attrs, life, drop_i, slot, releases, msgHandler, inSuperview, retained, nativeCalls,
    new_result>>
hostVars == <<ipcLog, navLog, useAfterFree, crashed, nEvents, posted, downloads>>
lockVars == <<mutex, eval_call, flush_pc, fired>>
scriptVars == <<pending_scripts, executed, evals, lockVars>>
vars == <<lifeVars, hostVars, tasks, scriptVars>>

(***************************************************************************)
(* Construction: the fields and registrations InnerEmbeddedWebview::new    *)
(* leaves behind.                                                          *)
(***************************************************************************)
\* the branch that creates the navigation closure and the download delegate
HasNavigationGroup(a) ==
  a.navigation_handler \/ a.new_window_req_handler \/ a.download_started_handler

ipc_handler_ptr(a) == a.ipc_handler

navigation_decide_policy_ptr(a) == HasNavigationGroup(a)

\* a download delegate created outside the branch of the navigation closure
download_delegate_ungrouped(a) ==
  a.download_started_handler \/ a.download_completed_handler

\* the field holds navigation_policy_handler when the delegate was created
download_delegate(a) ==
  HasNavigationGroup(a)
    /\ (a.download_started_handler \/ a.download_completed_handler)

\* the ivar "HasDownloadHandler": set (non-null) only inside the group branch
HasDownloadHandlerIvar(a) == HasNavigationGroup(a)

\* a flag that is set whatever the host registered
HasDownloadHandler_Always(a) == TRUE

\* the boxed bool behind the ivar: attributes.download_started_handler.is_some()
HasDownloadHandler(a) == a.download_started_handler

page_load_handler(a) == a.on_page_load_handler

protocol_ptrs(a) == a.custom_protocols

\* Box::into_raw of every closure the attributes carry
NewSlots(a) ==
  [s \in Slots |->
     CASE s = "ipc" -> IF ipc_handler_ptr(a) THEN "live" ELSE "null"
       [] s = "navigation_policy_function" ->
            IF navigation_decide_policy_ptr(a) THEN "live" ELSE "null"
       [] s = "on_page_load_function" ->
            IF page_load_handler(a) THEN "live" ELSE "null"
       [] s = "started" ->
            IF download_delegate(a) /\ a.download_started_handler
              THEN "live" ELSE "null"
       [] s = "completed" ->
            IF download_delegate(a) /\ a.download_completed_handler
              THEN "live" ELSE "null"
       [] OTHER -> IF s \in Range(protocol_ptrs(a)) THEN "live" ELSE "null"]

\* the ivar of slot s is written once, by new, and nothing clears it afterwards
IvarNonNull(w, s) == NewSlots(attrs[w])[s] # "null"

\* Option<T>: None is the empty sequence, Some(x) the one-element sequence
None == <<>>
Some(x) == <<x>>
IsSome(o) == o # <<>>
Unwrap(o) == o[1]

NoSlots == [s \in Slots |-> "null"]
NoReleases == [s \in Slots |-> 0]

\* the native object of the webview exists and can deliver callbacks
WebviewAlive(w) == life[w] # "absent" /\ "webview" \in retained[w]

(***************************************************************************)
(* Drop for InnerEmbeddedWebview, one statement per step.                  *)
(***************************************************************************)
\* a closure kept once per handler class: freeing it frees it for every
\* widget that registered the same name
FreeBox_PerClass(w, s) ==
  /\ slot' = [v \in Widgets |->
                IF slot[v][s] = "live" \/ v = w THEN [slot[v] EXCEPT ![s] = "freed"]
                                                ELSE slot[v]]
  /\ releases' = [releases EXCEPT ![w][s] = @ + 1]

\* drop(Box::from_raw(ptr))
FreeBox(w, s) ==
  /\ slot' = [slot EXCEPT ![w][s] = "freed"]
  /\ releases' = [releases EXCEPT ![w][s] = @ + 1]

\* the host lets go of the webview (webviews.remove): Drop::drop is entered
drop(w) ==
  /\ ~crashed
  /\ life[w] = "alive"
  /\ life' = [life EXCEPT ![w] = "drop_ipc"]
  /\ UNCHANGED <<new_result, nativeCalls, attrs, drop_i, slot, releases, msgHandler, inSuperview, retained>>
  /\ UNCHANGED <<hostVars, tasks, scriptVars>>

drop_ipc_handler(w) ==
  /\ ~crashed
  /\ life[w] = "drop_ipc"
  /\ IF ipc_handler_ptr(attrs[w])
       THEN /\ FreeBox(w, "ipc")
            /\ life' = [life EXCEPT ![w] = "remove_script_message_handler"]
       ELSE /\ life' = [life EXCEPT ![w] = "drop_navigation"]
            /\ UNCHANGED <<slot, releases>>
  /\ UNCHANGED <<new_result, nativeCalls, attrs, drop_i, msgHandler, inSuperview, retained>>
  /\ UNCHANGED <<hostVars, tasks, scriptVars>>

remove_script_message_handler(w) ==
  /\ ~crashed
  /\ life[w] = "remove_script_message_handler"
  /\ msgHandler' = [msgHandler EXCEPT ![w] = FALSE]
  /\ life' = [life EXCEPT ![w] = "drop_navigation"]
  /\ UNCHANGED <<new_result, nativeCalls, attrs, drop_i, slot, releases, inSuperview, retained>>
  /\ UNCHANGED <<hostVars, tasks, scriptVars>>

drop_navigation_decide_policy(w) ==
  /\ ~crashed
  /\ life[w] = "drop_navigation"
  /\ IF navigation_decide_policy_ptr(attrs[w])
       THEN FreeBox(w, "navigation_policy_function")
       ELSE UNCHANGED <<slot, releases>>
  /\ life' = [life EXCEPT ![w] = "drop_page_load"]
  /\ UNCHANGED <<new_result, nativeCalls, attrs, drop_i, msgHandler, inSuperview, retained>>
  /\ UNCHANGED <<hostVars, tasks, scriptVars>>

drop_page_load_handler(w) ==
  /\ ~crashed
  /\ life[w] = "drop_page_load"
  /\ IF page_load_handler(attrs[w])
       THEN FreeBox(w, "on_page_load_function")
       ELSE UNCHANGED <<slot, releases>>
  /\ life' = [life EXCEPT ![w] = "drop_download_delegate"]
  /\ UNCHANGED <<new_result, nativeCalls, attrs, drop_i, msgHandler, inSuperview, retained>>
  /\ UNCHANGED <<hostVars, tasks, scriptVars>>

\* ptr::drop_in_place on a *mut Object: Object has no drop glue, so neither
\* the delegate nor the boxes behind its "started"/"completed" ivars are freed
drop_download_delegate(w) ==
  /\ ~crashed
  /\ life[w] = "drop_download_delegate"
  /\ life' = [life EXCEPT ![w] = "drop_protocols"]
  /\ drop_i' = [drop_i EXCEPT ![w] = 1]
  /\ UNCHANGED <<new_result, nativeCalls, attrs, slot, releases, msgHandler, inSuperview, retained>>
  /\ UNCHANGED <<hostVars, tasks, scriptVars>>

drop_protocol_ptr(w) ==
  /\ ~crashed
  /\ life[w] = "drop_protocols"
  /\ drop_i[w] <= Len(protocol_ptrs(attrs[w]))
  /\ FreeBox(w, protocol_ptrs(attrs[w])[drop_i[w]])
  /\ drop_i' = [drop_i EXCEPT ![w] = @ + 1]
  /\ UNCHANGED <<new_result, nativeCalls, attrs, life, msgHandler, inSuperview, retained>>
  /\ UNCHANGED <<hostVars, tasks, scriptVars>>

remove_from_superview(w) ==
  /\ ~crashed
  /\ life[w] = "drop_protocols"
  /\ drop_i[w] > Len(protocol_ptrs(attrs[w]))
  /\ inSuperview' = [inSuperview EXCEPT ![w] = FALSE]
  /\ life' = [life EXCEPT ![w] = "release_webview"]
  /\ UNCHANGED <<new_result, nativeCalls, attrs, drop_i, slot, releases, msgHandler, retained>>
  /\ UNCHANGED <<hostVars, tasks, scriptVars>>

release_webview(w) ==
  /\ ~crashed
  /\ life[w] = "release_webview"
  /\ retained' = [retained EXCEPT ![w] = @ \ {"webview"}]
  /\ life' = [life EXCEPT ![w] = "release_manager"]
  /\ UNCHANGED <<new_result, nativeCalls, attrs, drop_i, slot, releases, msgHandler, inSuperview>>
  /\ UNCHANGED <<hostVars, tasks, scriptVars>>

release_manager(w) ==
  /\ ~crashed
  /\ life[w] = "release_manager"
  /\ retained' = [retained EXCEPT ![w] = @ \ {"manager"}]
  /\ life' = [life EXCEPT ![w] = "dropped"]
  /\ UNCHANGED <<new_result, nativeCalls, attrs, drop_i, slot, releases, msgHandler, inSuperview>>
  /\ UNCHANGED <<hostVars, tasks, scriptVars>>

DropStep(w) ==
  \/ drop(w)
  \/ drop_ipc_handler(w)
  \/ remove_script_message_handler(w)
  \/ drop_navigation_decide_policy(w)
  \/ drop_page_load_handler(w)
  \/ drop_download_delegate(w)
  \/ drop_protocol_ptr(w)
  \/ remove_from_superview(w)
  \/ release_webview(w)
  \/ release_manager(w)

(***************************************************************************)
(* Native trampolines of the IPC channel and the navigation delegate.      *)
(***************************************************************************)
\* calling through a pointer whose box was freed is undefined: the call may
\* still run the old closure or fault
UseAfterFreeOutcomes == {"call", "fault"}

RECURSIVE CStrFromPtr(_)
\* CStr::from_ptr(utf8): the bytes up to the first NUL
CStrFromPtr(bytes) ==
  IF bytes = <<>> \/ Head(bytes) = 0
    THEN <<>>
    ELSE <<Head(bytes)>> \o CStrFromPtr(Tail(bytes))

did_receive(w, msg, outcome) ==
  /\ ~crashed
  /\ WebviewAlive(w)
  /\ msgHandler[w]
  /\ nEvents < MaxEvents
  /\ nEvents' = nEvents + 1
  /\ posted' = [posted EXCEPT ![w] = Append(@, msg)]
  /\ IF IvarNonNull(w, "ipc")
       THEN IF slot[w]["ipc"] = "live"
              THEN /\ ipcLog' = [ipcLog EXCEPT ![w] = Append(@, CStrFromPtr(msg))]
                   /\ UNCHANGED <<useAfterFree, crashed>>
              ELSE /\ useAfterFree' = useAfterFree \cup {<<w, "ipc">>}
                   /\ IF outcome = "call"
                        THEN /\ ipcLog' =
                                  [ipcLog EXCEPT ![w] = Append(@, CStrFromPtr(msg))]
                             /\ UNCHANGED crashed
                        ELSE /\ crashed' = TRUE
                             /\ UNCHANGED ipcLog
       ELSE UNCHANGED <<ipcLog, useAfterFree, crashed>>
  /\ UNCHANGED <<navLog, downloads, lifeVars, tasks, scriptVars>>

\* a closure that asks the navigation handler for every frame
NavigationClosure_MainOnly(a, is_main_frame, hostResult) ==
  IF a.navigation_handler THEN hostResult ELSE TRUE

\* the closure stored in "navigation_policy_function"
NavigationClosure(a, is_main_frame, hostResult) ==
  IF is_main_frame
    THEN IF a.navigation_handler THEN hostResult ELSE TRUE
    ELSE IF a.new_window_req_handler THEN hostResult ELSE TRUE

\* which host handler that closure calls
NavigationCallee(a, is_main_frame) ==
  IF is_main_frame
    THEN IF a.navigation_handler THEN "navigation" ELSE "none"
    ELSE IF a.new_window_req_handler THEN "new_window" ELSE "none"

\* one call of the decision handler of a navigation action; result is what
\* the host handler answers when it is asked
Decision(download, main, decision, called, result) ==
  [kind |-> "action", download |-> download, main |-> main,
   decision |-> decision, called |-> called, result |-> result]

\* one call of the decision handler of a navigation response
ResponseDecision(can_show_mime_type, decision) ==
  [kind |-> "response", can_show_mime_type |-> can_show_mime_type,
   decision |-> decision]

\* a trampoline that asks the closure before it looks at the download flag
navigation_policy_closure_first(w, should_download, is_main_frame, hostResult, outcome) ==
  /\ ~crashed
  /\ WebviewAlive(w)
  /\ nEvents < MaxEvents
  /\ nEvents' = nEvents + 1
  /\ LET a == attrs[w]
         called == IF IvarNonNull(w, "navigation_policy_function")
                     THEN NavigationCallee(a, is_main_frame) ELSE "none"
         allowed == IF IvarNonNull(w, "navigation_policy_function")
                      THEN NavigationClosure(a, is_main_frame, hostResult) ELSE TRUE
         d == IF should_download
                THEN IF HasDownloadHandlerIvar(a) /\ HasDownloadHandler(a) THEN 2 ELSE 0
                ELSE IF allowed THEN 1 ELSE 0
     IN navLog' = [navLog EXCEPT ![w] =
                     Append(@, Decision(should_download, is_main_frame, d, called,
                                        hostResult))]
  /\ UNCHANGED <<ipcLog, useAfterFree, crashed, posted, downloads, lifeVars, tasks,
                 scriptVars>>

\* WKNavigationActionPolicy: 0 cancel, 1 allow, 2 download
navigation_policy(w, should_download, is_main_frame, hostResult, outcome) ==
  /\ ~crashed
  /\ WebviewAlive(w)
  /\ nEvents < MaxEvents
  /\ nEvents' = nEvents + 1
  /\ LET a == attrs[w]
         log(d, c) ==
           navLog' = [navLog EXCEPT ![w] =
                        Append(@, Decision(should_download, is_main_frame, d, c,
                                           hostResult))]
     IN IF should_download
          THEN /\ IF HasDownloadHandlerIvar(a)
                    THEN IF HasDownloadHandler(a) THEN log(2, "none") ELSE log(0, "none")
                    ELSE log(0, "none")
               /\ UNCHANGED <<useAfterFree, crashed>>
          ELSE IF IvarNonNull(w, "navigation_policy_function")
                 THEN IF slot[w]["navigation_policy_function"] = "live"
                        THEN /\ log(IF NavigationClosure(a, is_main_frame, hostResult)
                                      THEN 1 ELSE 0,
                                    NavigationCallee(a, is_main_frame))
                             /\ UNCHANGED <<useAfterFree, crashed>>
                        ELSE /\ useAfterFree' =
                                  useAfterFree \cup {<<w, "navigation_policy_function">>}
                             /\ IF outcome = "call"
                                  THEN /\ log(IF hostResult THEN 1 ELSE 0,
                                              NavigationCallee(a, is_main_frame))
                                       /\ UNCHANGED crashed
                                  ELSE /\ crashed' = TRUE
                                       /\ UNCHANGED navLog
                 ELSE /\ log(1, "none")
                      /\ UNCHANGED <<useAfterFree, crashed>>
  /\ UNCHANGED <<ipcLog, posted, downloads, lifeVars, tasks, scriptVars>>

\* a response trampoline that lets the webview show what it cannot render
navigation_policy_response_cancel(w, can_show_mime_type) ==
  /\ ~crashed
  /\ WebviewAlive(w)
  /\ nEvents < MaxEvents
  /\ nEvents' = nEvents + 1
  /\ LET a == attrs[w]
         d == IF can_show_mime_type
                THEN 1
                ELSE IF HasDownloadHandlerIvar(a) /\ HasDownloadHandler(a) THEN 2 ELSE 0
     IN navLog' = [navLog EXCEPT ![w] =
                     Append(@, ResponseDecision(can_show_mime_type, d))]
  /\ UNCHANGED <<ipcLog, useAfterFree, crashed, posted, downloads, lifeVars, tasks,
                 scriptVars>>

\* a response trampoline without the return after the download decision
navigation_policy_response_fallthrough(w, can_show_mime_type) ==
  /\ ~crashed
  /\ WebviewAlive(w)
  /\ nEvents < MaxEvents
  /\ nEvents' = nEvents + 1
  /\ LET a == attrs[w]
         download == /\ ~can_show_mime_type
                     /\ HasDownloadHandlerIvar(a)
                     /\ HasDownloadHandler(a)
     IN navLog' = [navLog EXCEPT ![w] =
                     @ \o (IF download
                             THEN <<ResponseDecision(can_show_mime_type, 2)>>
                             ELSE <<>>)
                       \o <<ResponseDecision(can_show_mime_type, 1)>>]
  /\ UNCHANGED <<ipcLog, useAfterFree, crashed, posted, downloads, lifeVars, tasks,
                 scriptVars>>

\* WKNavigationResponsePolicy: 0 cancel, 1 allow, 2 download
navigation_policy_response(w, can_show_mime_type) ==
  /\ ~crashed
  /\ WebviewAlive(w)
  /\ nEvents < MaxEvents
  /\ nEvents' = nEvents + 1
  /\ LET a == attrs[w]
         d == IF /\ ~can_show_mime_type
                 /\ HasDownloadHandlerIvar(a)
                 /\ HasDownloadHandler(a)
                THEN 2
                ELSE 1
     IN navLog' = [navLog EXCEPT ![w] =
                     Append(@, ResponseDecision(can_show_mime_type, d))]
  /\ UNCHANGED <<ipcLog, useAfterFree, crashed, posted, downloads, lifeVars, tasks,
                 scriptVars>>

(***************************************************************************)
(* The download pipeline: what the engine does with a decision of          *)
(* "download", and the three events of the download delegate.              *)
(***************************************************************************)
\* the decisions of w that routed the load to the download pipeline
Routed(w) == Cardinality({i \in DOMAIN navLog[w] : navLog[w][i].decision = 2})

\* a download the engine has begun; log: the host handlers it has called
NewDownload(delegate) == [delegate |-> delegate, state |-> "begun", log |-> <<>>]

\* the load became a download: the engine hands it to the navigation
\* delegate, which attaches the download delegate it was given
navigation_download(w) ==
  /\ ~crashed
  /\ WebviewAlive(w)
  /\ Len(downloads[w]) < Routed(w)
  /\ downloads' = [downloads EXCEPT ![w] =
                     Append(@, NewDownload(download_delegate(attrs[w])))]
  /\ UNCHANGED <<ipcLog, navLog, useAfterFree, crashed, nEvents, posted>>
  /\ UNCHANGED <<lifeVars, tasks, scriptVars>>

\* started: the host handler is asked for the destination and may refuse;
\* without a handler the download is cancelled
download_policy(w, i, hostResult) ==
  /\ ~crashed
  /\ WebviewAlive(w)
  /\ i \in DOMAIN downloads[w]
  /\ downloads[w][i].delegate
  /\ downloads[w][i].state = "begun"
  /\ downloads' = [downloads EXCEPT ![w][i] =
       IF IvarNonNull(w, "started")
         THEN [@ EXCEPT !.log = Append(@, "started"),
                        !.state = IF hostResult THEN "downloading" ELSE "cancelled"]
         ELSE [@ EXCEPT !.state = "cancelled"]]
  /\ UNCHANGED <<ipcLog, navLog, useAfterFree, crashed, nEvents, posted>>
  /\ UNCHANGED <<lifeVars, tasks, scriptVars>>

\* how a download ends: finished, or failed
DownloadEnd(w, i, state) ==
  /\ ~crashed
  /\ WebviewAlive(w)
  /\ i \in DOMAIN downloads[w]
  /\ downloads[w][i].delegate
  /\ downloads[w][i].state = "downloading"
  /\ downloads' = [downloads EXCEPT ![w][i] =
       IF IvarNonNull(w, "completed")
         THEN [@ EXCEPT !.log = Append(@, state), !.state = state]
         ELSE [@ EXCEPT !.state = state]]
  /\ UNCHANGED <<ipcLog, navLog, useAfterFree, crashed, nEvents, posted>>
  /\ UNCHANGED <<lifeVars, tasks, scriptVars>>

\* finished: the completed handler is told of the success
download_did_finish(w, i) == DownloadEnd(w, i, "finished")

\* failed: the completed handler is told of the failure
download_did_fail(w, i) == DownloadEnd(w, i, "failed")

(***************************************************************************)
(* Custom protocol bridge: start_task, its responder closure, stop_task.   *)
(* Strings that the code parses are byte sequences here.                   *)
(***************************************************************************)
Bytes == {104}

Statuses == {200, 404}

\* "GET" and "G T"
Methods == {<<71, 69, 84>>, <<71, 32, 84>>}

\* "a:/x" and "a:/ x"
Uris == {<<97, 58, 47, 120>>, <<97, 58, 47, 32, 120>>}

\* allHTTPHeaderFields, name and value: "x: 1" and "x y: 1"
RequestHeaders ==
  {<< <<(<<120>>), (<<49>>)>> >>, << <<(<<120, 32, 121>>), (<<49>>)>> >>}

\* HTTPBody: nil or the bytes
HTTPBodies == {None, Some(<<104>>)}

\* HTTPBodyStream: nil here; the requests with a stream are StreamRequests
NativeRequests ==
  [method : Methods, uri : Uris, headers : RequestHeaders, HTTPBody : HTTPBodies,
   HTTPBodyStream : {None}]

\* "t/p" and a value with an obs-text byte, which HeaderValue accepts
TextPlain == <<116, 47, 112>>
OpaqueMime == <<116, 47, 250>>

ResponseHeaderFields ==
  {<<"content-type", TextPlain>>,
   <<"content-type", OpaqueMime>>,
   <<"content-length", <<57, 57>> >>}

SeqsUpTo(S, n) == UNION {[1..k -> S] : k \in 0..n}

\* what a host can hand to the responder
HostResponses ==
  [status : Statuses,
   version : {"HTTP/1.1"},
   headers : SeqsUpTo(ResponseHeaderFields, MaxHeaders),
   body : SeqsUpTo(Bytes, MaxBody)]

\* http::Method::from_bytes / HeaderName::from_bytes: a non-empty token
IsTokenByte(b) ==
  /\ b > 32
  /\ b < 127
  /\ b \notin {34, 40, 41, 44, 47, 58, 59, 60, 61, 62, 63, 64, 91, 92, 93, 123, 125}

IsToken(bytes) == bytes # <<>> /\ \A i \in DOMAIN bytes : IsTokenByte(bytes[i])

\* http::Uri parsing: non-empty, every byte a URI character
IsUriByte(b) ==
  /\ b > 32
  /\ b < 127
  /\ b \notin {34, 60, 62, 92, 94, 96, 123, 124, 125}

IsUri(bytes) == bytes # <<>> /\ \A i \in DOMAIN bytes : IsUriByte(bytes[i])

\* HeaderValue::from_str: visible ASCII, tab or obs-text
IsHeaderValue(bytes) ==
  \A i \in DOMAIN bytes : bytes[i] = 9 \/ (bytes[i] >= 32 /\ bytes[i] # 127)

\* HeaderValue::to_str succeeds only on visible ASCII and tab
ToStrOk(bytes) ==
  \A i \in DOMAIN bytes : bytes[i] = 9 \/ (bytes[i] >= 32 /\ bytes[i] < 127)

\* a builder that does not validate the method
RequestBuilds_AnyMethod(req) ==
  /\ IsUri(req.uri)
  /\ \A i \in DOMAIN req.headers :
       IsToken(req.headers[i][1]) /\ IsHeaderValue(req.headers[i][2])

\* Request::builder().uri(..).method(..).header(..)*.body(..) is Ok
RequestBuilds(req) ==
  /\ IsUri(req.uri)
  /\ IsToken(req.method)
  /\ \A i \in DOMAIN req.headers :
       IsToken(req.headers[i][1]) /\ IsHeaderValue(req.headers[i][2])

\* the longest stream, in reads
MaxReads == 3

\* what read:maxLength: returns, an NSInteger: the number of bytes it wrote
\* at p, or -1 when the operation failed
Chunk(bytes) == [count |-> Len(bytes), bytes |-> bytes]

ReadError == [count |-> -1, bytes |-> <<>>]

Chunks == {Chunk(<<104>>), Chunk(<<105, 106>>)}

RECURSIVE ChunkSeqs(_)
ChunkSeqs(n) ==
  IF n = 0 THEN {<<>>}
  ELSE ChunkSeqs(n - 1) \cup
       {Append(q, c) : q \in {x \in ChunkSeqs(n - 1) : Len(x) = n - 1}, c \in Chunks}

\* a body stream: the reads it answers while hasBytesAvailable is YES; a
\* failed read ends it
Streams ==
  ChunkSeqs(MaxReads) \cup
  {Append(q, ReadError) : q \in ChunkSeqs(MaxReads - 1)}

\* the build's answer to an overflowing usize addition: release builds
\* wrap, builds with overflow checks panic
OverflowOutcomes == {"wrap", "panic"}

\* sent_form_body.len() + count in usize, where count is the NSInteger
\* taken as a usize: a negative count n is 2^64 + n. The addition overflows
\* when len + n is not negative, and then wraps to len + n
Overflows(len, count) == count < 0 /\ len + count >= 0

\* a negative count that does not overflow gives 2^64 + len + n, more than
\* any capacity: set_len is then undefined
PastCapacity(len, count) == count < 0 /\ len + count < 0

\* the bytes of a vector whose length was set past its capacity
Garbage == <<-1>>

RECURSIVE Drain(_, _, _, _)
\* while hasBytesAvailable { reserve; read into the spare capacity; set_len }
Drain(reads, buf, overflow, outcome) ==
  IF reads = <<>>
    THEN [ok |-> TRUE, body |-> buf]
    ELSE LET count == Head(reads).count
             len == Len(buf)
         IN IF Overflows(len, count) /\ overflow = "panic"
              THEN [ok |-> FALSE, body |-> buf]
              ELSE IF PastCapacity(len, count)
                     THEN IF outcome = "fault"
                            THEN [ok |-> FALSE, body |-> buf]
                            ELSE Drain(Tail(reads), Garbage, overflow, outcome)
                     ELSE Drain(Tail(reads),
                                SubSeq(buf \o Head(reads).bytes, 1, len + count),
                                overflow, outcome)

\* sent_form_body: the contiguous HTTPBody when there is one, else the
\* drained HTTPBodyStream when there is one, else empty
SentFormBody(req, overflow, outcome) ==
  IF IsSome(req.HTTPBody) THEN [ok |-> TRUE, body |-> Unwrap(req.HTTPBody)]
  ELSE IF IsSome(req.HTTPBodyStream) THEN Drain(Unwrap(req.HTTPBodyStream), <<>>, overflow, outcome)
  ELSE [ok |-> TRUE, body |-> <<>>]

FinalRequest(req, overflow, outcome) ==
  [method |-> req.method, uri |-> req.uri, headers |-> req.headers,
   body |-> SentFormBody(req, overflow, outcome).body]

RECURSIVE usize_to_string(_)
\* usize::to_string, as ASCII digits
usize_to_string(n) ==
  IF n < 10 THEN <<48 + n>> ELSE usize_to_string(n \div 10) \o <<48 + (n % 10)>>

\* NSMutableDictionary: header name -> value
EmptyDictionary == [k \in {} |-> <<>>]

SetObject(d, value, key) ==
  [k \in DOMAIN d \cup {key} |-> IF k = key THEN value ELSE d[k]]

\* sent_response.headers().get(CONTENT_TYPE): the first value of that name
GetHeader(headers, name) ==
  LET at == {i \in DOMAIN headers : headers[i][1] = name}
  IN IF at = {} THEN None
     ELSE Some(headers[CHOOSE i \in at : \A j \in at : i <= j][2])

RECURSIVE AddHeaders(_, _)
\* the "add headers" loop: every field whose value is a str is set, last wins
AddHeaders(d, headers) ==
  IF headers = <<>> THEN d
  ELSE LET h == Head(headers)
       IN AddHeaders(IF ToStrOk(h[2]) THEN SetObject(d, h[2], h[1]) ELSE d,
                     Tail(headers))

\* mime.to_str().unwrap() panics on a content-type that is not a str
ResponderPanics(resp) ==
  LET wanted_mime == GetHeader(resp.headers, "content-type")
  IN IsSome(wanted_mime) /\ ~ToStrOk(Unwrap(wanted_mime))

\* the headerFields dictionary of the NSHTTPURLResponse
ResponseHeaderFieldsOf(resp) ==
  LET wanted_mime == GetHeader(resp.headers, "content-type")
      d0 == IF IsSome(wanted_mime)
              THEN SetObject(EmptyDictionary, Unwrap(wanted_mime), "content-type")
              ELSE EmptyDictionary
      d1 == SetObject(d0, usize_to_string(Len(resp.body)), "content-length")
  IN AddHeaders(d1, resp.headers)

\* what the bridge sends to a WKURLSchemeTask
Signal(type, status, version, headers, data) ==
  [type |-> type, status |-> status, version |-> version,
   headers |-> headers, data |-> data]

DidReceiveResponse(status, version, headers) ==
  Signal("didReceiveResponse", status, version, headers, <<>>)

DidReceiveData(data) == Signal("didReceiveData", 0, "", EmptyDictionary, data)

DidFinish == Signal("didFinish", 0, "", EmptyDictionary, <<>>)

\* the respond_with_404 closure
respond_with_404 ==
  <<DidReceiveResponse(404, "HTTP/1.1", EmptyDictionary), DidFinish>>

\* the responder closure, from didReceiveResponse to didFinish
ResponderSignals(resp) ==
  <<DidReceiveResponse(resp.status, resp.version, ResponseHeaderFieldsOf(resp)),
    DidReceiveData(resp.body),
    DidFinish>>

\* a WKURLSchemeTask: the native request it carries, the request and the
\* responder handed to the host, the response the host gave, the signals the
\* bridge sent to it, and the length of that log when the native stop came
Task(w, scheme, native, request, responder, log) ==
  [widget |-> w, scheme |-> scheme, native |-> native, request |-> request,
   responder |-> responder, response |-> None, log |-> log, stoppedAt |-> -1]

start_task(w, scheme, req, outcome, overflow) ==
  /\ ~crashed
  /\ WebviewAlive(w)
  /\ scheme \in Range(attrs[w].custom_protocols)
  /\ Len(tasks) < MaxTasks
  /\ IF IvarNonNull(w, scheme)
       THEN IF ~SentFormBody(req, overflow, outcome).ok
              THEN /\ crashed' = TRUE
                   /\ UNCHANGED <<tasks, useAfterFree>>
              ELSE IF RequestBuilds(req)
              THEN IF slot[w][scheme] = "live"
                     THEN /\ tasks' = Append(tasks,
                                 Task(w, scheme, req, Some(FinalRequest(req, overflow, outcome)),
                                      "held", <<>>))
                          /\ UNCHANGED <<useAfterFree, crashed>>
                     ELSE /\ useAfterFree' = useAfterFree \cup {<<w, scheme>>}
                          /\ IF outcome = "call"
                               THEN /\ tasks' = Append(tasks,
                                         Task(w, scheme, req, Some(FinalRequest(req, overflow, outcome)),
                                              "held", <<>>))
                                    /\ UNCHANGED crashed
                               ELSE /\ crashed' = TRUE
                                    /\ UNCHANGED tasks
              ELSE /\ tasks' = Append(tasks,
                          Task(w, scheme, req, None, "none", respond_with_404))
                   /\ UNCHANGED <<useAfterFree, crashed>>
       ELSE /\ tasks' = Append(tasks, Task(w, scheme, req, None, "none", <<>>))
            /\ UNCHANGED <<useAfterFree, crashed>>
  /\ UNCHANGED <<ipcLog, navLog, nEvents, posted, downloads, lifeVars, scriptVars>>

\* the host calls RequestAsyncResponder::respond: the FnOnce runs
respond(t, resp) ==
  /\ ~crashed
  /\ t \in DOMAIN tasks
  /\ tasks[t].responder = "held"
  /\ tasks' = [tasks EXCEPT ![t] =
       IF ResponderPanics(resp)
         THEN [@ EXCEPT !.responder = "panicked", !.response = Some(resp)]
         ELSE [@ EXCEPT !.responder = "consumed", !.response = Some(resp),
                        !.log = @ \o ResponderSignals(resp)]]
  /\ UNCHANGED <<lifeVars, hostVars, scriptVars>>

\* a responder that answers 404 when it is dropped unused
drop_responder_404(t) ==
  /\ ~crashed
  /\ t \in DOMAIN tasks
  /\ tasks[t].responder = "held"
  /\ tasks' = [tasks EXCEPT ![t].responder = "dropped",
                            ![t].log = @ \o respond_with_404]
  /\ UNCHANGED <<lifeVars, hostVars, scriptVars>>

\* the host drops the responder without calling it
drop_responder(t) ==
  /\ ~crashed
  /\ t \in DOMAIN tasks
  /\ tasks[t].responder = "held"
  /\ tasks' = [tasks EXCEPT ![t].responder = "dropped"]
  /\ UNCHANGED <<lifeVars, hostVars, scriptVars>>

Finished(task) == \E i \in DOMAIN task.log : task.log[i].type = "didFinish"

\* webView:stopURLSchemeTask: has an empty body; the native side has
\* cancelled a task that was still running
stop_task(t) ==
  /\ ~crashed
  /\ t \in DOMAIN tasks
  /\ tasks[t].stoppedAt = -1
  /\ ~Finished(tasks[t])
  /\ tasks' = [tasks EXCEPT ![t].stoppedAt = Len(tasks[t].log)]
  /\ UNCHANGED <<lifeVars, hostVars, scriptVars>>

(***************************************************************************)
(* Script injection queue: pending_scripts, eval and the flush.            *)
(***************************************************************************)
\* a push at the front of the buffer
PushFront(scripts, js) == <<js>> \o scripts

\* scripts.push(js.into())
Push(scripts, js) == Append(scripts, js)

\* one evaluateJavaScript:completionHandler: call
Evaluate(js, completionHandler, via) ==
  [js |-> js, completionHandler |-> completionHandler, via |-> via]

\* an eval that buffers again once the queue was flushed
eval_rebuffer(w, js, callback) ==
  /\ ~crashed
  /\ life[w] = "alive"
  /\ mutex[w] = "free"
  /\ Len(evals[w]) < MaxScripts
  /\ pending_scripts' =
       [pending_scripts EXCEPT ![w] =
          Some(Push(IF IsSome(@) THEN Unwrap(@) ELSE <<>>, js))]
  /\ UNCHANGED executed
  /\ evals' = [evals EXCEPT ![w] =
       Append(@, [js |-> js, callback |-> callback,
                  buffered |-> IsSome(pending_scripts[w])])]
  /\ UNCHANGED <<lockVars, lifeVars, hostVars, tasks>>

\* an eval that never hands the callback to the webview
eval_drop_callback(w, js, callback) ==
  /\ ~crashed
  /\ life[w] = "alive"
  /\ mutex[w] = "free"
  /\ Len(evals[w]) < MaxScripts
  /\ IF IsSome(pending_scripts[w])
       THEN /\ pending_scripts' =
                 [pending_scripts EXCEPT ![w] = Some(Push(Unwrap(@), js))]
            /\ UNCHANGED executed
       ELSE /\ executed' =
                 [executed EXCEPT ![w] = Append(@, Evaluate(js, FALSE, "eval"))]
            /\ UNCHANGED pending_scripts
  /\ evals' = [evals EXCEPT ![w] =
       Append(@, [js |-> js, callback |-> callback,
                  buffered |-> IsSome(pending_scripts[w])])]
  /\ UNCHANGED <<lockVars, lifeVars, hostVars, tasks>>

eval(w, js, callback) ==
  /\ ~crashed
  /\ life[w] = "alive"
  /\ mutex[w] = "free"
  /\ Len(evals[w]) < MaxScripts
  /\ IF IsSome(pending_scripts[w])
       THEN /\ pending_scripts' =
                 [pending_scripts EXCEPT ![w] = Some(Push(Unwrap(@), js))]
            /\ UNCHANGED executed
       ELSE /\ executed' =
                 [executed EXCEPT ![w] = Append(@, Evaluate(js, callback, "eval"))]
            /\ UNCHANGED pending_scripts
  /\ evals' = [evals EXCEPT ![w] =
       Append(@, [js |-> js, callback |-> callback,
                  buffered |-> IsSome(pending_scripts[w])])]
  /\ UNCHANGED <<lockVars, lifeVars, hostVars, tasks>>

\* the buffered sources, each evaluated without a completion handler
FlushCalls(scripts) ==
  [i \in DOMAIN scripts |-> Evaluate(scripts[i], FALSE, "flush")]

\* the ready transition: under the lock, run every buffered source in order
\* and leave None behind
flush_pending_scripts(w) ==
  /\ ~crashed
  /\ WebviewAlive(w)
  /\ mutex[w] = "free"
  /\ IsSome(pending_scripts[w])
  /\ executed' = [executed EXCEPT ![w] = @ \o FlushCalls(Unwrap(pending_scripts[w]))]
  /\ pending_scripts' = [pending_scripts EXCEPT ![w] = None]
  /\ UNCHANGED <<evals, lockVars, lifeVars, hostVars, tasks>>

\* the completion handler block of an evaluateJavaScript call runs: it calls
\* the callback eval was given
completion_handler(w, i) ==
  /\ ~crashed
  /\ i \in DOMAIN executed[w]
  /\ executed[w][i].completionHandler
  /\ i \notin fired[w]
  /\ fired' = [fired EXCEPT ![w] = @ \cup {i}]
  /\ UNCHANGED <<pending_scripts, executed, evals, mutex, eval_call, flush_pc>>
  /\ UNCHANGED <<lifeVars, hostVars, tasks>>

(***************************************************************************)
(* The same eval and flush, statement by statement, each under the lock    *)
(* of pending_scripts: the guard of the if let lives to the end of eval.   *)
(***************************************************************************)
EvalCall(js, callback, pc) == [js |-> js, callback |-> callback, pc |-> pc]

\* an eval that reads the queue without taking its lock
eval_lock_unlocked(w, js, callback) ==
  /\ ~crashed
  /\ life[w] = "alive"
  /\ Len(evals[w]) < MaxScripts
  /\ eval_call[w] = None
  /\ eval_call' = [eval_call EXCEPT ![w] = Some(EvalCall(js, callback, "locked"))]
  /\ UNCHANGED <<pending_scripts, executed, evals, mutex, flush_pc, fired>>
  /\ UNCHANGED <<lifeVars, hostVars, tasks>>

\* self.pending_scripts.lock().unwrap()
eval_lock(w, js, callback) ==
  /\ ~crashed
  /\ life[w] = "alive"
  /\ Len(evals[w]) < MaxScripts
  /\ eval_call[w] = None
  /\ mutex[w] = "free"
  /\ mutex' = [mutex EXCEPT ![w] = "eval"]
  /\ eval_call' = [eval_call EXCEPT ![w] = Some(EvalCall(js, callback, "locked"))]
  /\ UNCHANGED <<pending_scripts, executed, evals, flush_pc, fired>>
  /\ UNCHANGED <<lifeVars, hostVars, tasks>>

\* if let Some(scripts) = &mut *guard
eval_match(w) ==
  /\ ~crashed
  /\ IsSome(eval_call[w])
  /\ Unwrap(eval_call[w]).pc = "locked"
  /\ eval_call' = [eval_call EXCEPT ![w] =
       Some([Unwrap(@) EXCEPT !.pc =
               IF IsSome(pending_scripts[w]) THEN "push" ELSE "evaluate"])]
  /\ UNCHANGED <<pending_scripts, executed, evals, mutex, flush_pc, fired>>
  /\ UNCHANGED <<lifeVars, hostVars, tasks>>

\* the guard is dropped when eval returns
Unlock(w, holder) ==
  mutex' = [mutex EXCEPT ![w] = IF @ = holder THEN "free" ELSE @]

\* scripts.push(js.into()); a buffer that was taken away meanwhile takes the
\* source with it
eval_push(w) ==
  /\ ~crashed
  /\ IsSome(eval_call[w])
  /\ Unwrap(eval_call[w]).pc = "push"
  /\ LET c == Unwrap(eval_call[w])
     IN /\ pending_scripts' =
             [pending_scripts EXCEPT ![w] =
                IF IsSome(@) THEN Some(Push(Unwrap(@), c.js)) ELSE @]
        /\ evals' = [evals EXCEPT ![w] =
             Append(@, [js |-> c.js, callback |-> c.callback, buffered |-> TRUE])]
  /\ eval_call' = [eval_call EXCEPT ![w] = None]
  /\ Unlock(w, "eval")
  /\ UNCHANGED <<executed, flush_pc, fired>>
  /\ UNCHANGED <<lifeVars, hostVars, tasks>>

\* evaluateJavaScript:completionHandler: with the callback's block or null
eval_evaluate(w) ==
  /\ ~crashed
  /\ IsSome(eval_call[w])
  /\ Unwrap(eval_call[w]).pc = "evaluate"
  /\ LET c == Unwrap(eval_call[w])
     IN /\ executed' =
             [executed EXCEPT ![w] = Append(@, Evaluate(c.js, c.callback, "eval"))]
        /\ evals' = [evals EXCEPT ![w] =
             Append(@, [js |-> c.js, callback |-> c.callback, buffered |-> FALSE])]
  /\ eval_call' = [eval_call EXCEPT ![w] = None]
  /\ Unlock(w, "eval")
  /\ UNCHANGED <<pending_scripts, flush_pc, fired>>
  /\ UNCHANGED <<lifeVars, hostVars, tasks>>

\* the ready transition takes the lock
flush_lock(w) ==
  /\ ~crashed
  /\ WebviewAlive(w)
  /\ flush_pc[w] = "idle"
  /\ mutex[w] = "free"
  /\ mutex' = [mutex EXCEPT ![w] = "flush"]
  /\ flush_pc' = [flush_pc EXCEPT ![w] = "locked"]
  /\ UNCHANGED <<pending_scripts, executed, evals, eval_call, fired>>
  /\ UNCHANGED <<lifeVars, hostVars, tasks>>

\* it runs the buffered sources in order; a flushed queue has none
flush_run(w) ==
  /\ ~crashed
  /\ flush_pc[w] = "locked"
  /\ IF IsSome(pending_scripts[w])
       THEN /\ executed' =
                 [executed EXCEPT ![w] = @ \o FlushCalls(Unwrap(pending_scripts[w]))]
            /\ flush_pc' = [flush_pc EXCEPT ![w] = "clear"]
            /\ UNCHANGED mutex
       ELSE /\ flush_pc' = [flush_pc EXCEPT ![w] = "idle"]
            /\ Unlock(w, "flush")
            /\ UNCHANGED executed
  /\ UNCHANGED <<pending_scripts, evals, eval_call, fired>>
  /\ UNCHANGED <<lifeVars, hostVars, tasks>>

\* it leaves None behind and releases the lock
flush_clear(w) ==
  /\ ~crashed
  /\ flush_pc[w] = "clear"
  /\ pending_scripts' = [pending_scripts EXCEPT ![w] = None]
  /\ flush_pc' = [flush_pc EXCEPT ![w] = "idle"]
  /\ Unlock(w, "flush")
  /\ UNCHANGED <<executed, evals, eval_call, fired>>
  /\ UNCHANGED <<lifeVars, hostVars, tasks>>

(***************************************************************************)
(* Initial states and specifications.                                      *)
(***************************************************************************)
\* a queue that is built already flushed
NewPendingScripts_None == None

\* Arc::new(Mutex::new(Some(Vec::new())))
NewPendingScripts == Some(<<>>)

(***************************************************************************)
(* InnerEmbeddedWebview::new: the calls it makes on the native objects, in *)
(* order, and the value it returns.                                        *)
(***************************************************************************)
\* the script that defines window.ipc
Bootstrap == "ipc"

\* a hierarchical URL, a data URL with a comma and one without
Urls ==
  {[cannot_be_a_base |-> FALSE, as_str |-> <<104>>],
   [cannot_be_a_base |-> TRUE, as_str |-> <<100, 44, 60>>],
   [cannot_be_a_base |-> TRUE, as_str |-> <<100>>]}

Htmls == {<<60>>}

\* the attributes that say what to load: initialization_scripts, url, html
\* and the headers of the request; the contents with headers are
\* HeaderContents
Contents ==
  [initialization_scripts : SeqsUpTo(Scripts, MaxInitScripts),
   url : {None} \cup {Some(u) : u \in Urls},
   html : {None} \cup {Some(h) : h \in Htmls},
   headers : {None}]

NoContent ==
  [initialization_scripts |-> <<>>, url |-> None, html |-> None, headers |-> None]

\* a header of the HeaderMap, name and value: "x: 1" and "x: " followed by
\* the obs-text byte 233, which HeaderValue accepts
HeaderFields == {<< <<120>>, <<49>> >>, << <<120>>, <<233>> >>}

HeaderMaps == SeqsUpTo(HeaderFields, MaxHeaders)

HeaderContents ==
  [initialization_scripts : {<<>>},
   url : {None} \cup {Some(u) : u \in Urls},
   html : {None} \cup {Some(h) : h \in Htmls},
   headers : {None} \cup {Some(h) : h \in HeaderMaps}]

Call(name, arg) == [call |-> name, arg |-> arg]

RECURSIVE Find(_, _)
\* s.find(','): the index of the first such byte, 0 when there is none
Find(s, byte) ==
  IF s = <<>>
    THEN 0
    ELSE IF Head(s) = byte
           THEN 1
           ELSE LET r == Find(Tail(s), byte) IN IF r = 0 THEN 0 ELSE r + 1

\* s.split_at(pos + 1).1
SplitAfter(s, pos) == SubSeq(s, pos + 1, Len(s))

\* per scheme: the boxed function goes into the ivar of a fresh handler,
\* which is then registered for the scheme
ProtocolCalls(a) ==
  [k \in 1..(2 * Len(a.custom_protocols)) |->
     IF k % 2 = 1
       THEN Call("set_ivar", a.custom_protocols[(k + 1) \div 2])
       ELSE Call("setURLSchemeHandler", a.custom_protocols[k \div 2])]

IpcCalls(a) ==
  IF a.ipc_handler
    THEN <<Call("set_ivar", "ipc"), Call("addScriptMessageHandler", "ipc")>>
    ELSE <<>>

\* the ivars of the download delegate and its hand-over to the navigation
\* delegate
DownloadDelegateCalls(a) ==
  IF download_delegate(a)
    THEN (IF a.download_started_handler THEN <<Call("set_ivar", "started")>> ELSE <<>>)
           \o (IF a.download_completed_handler
                 THEN <<Call("set_ivar", "completed")>> ELSE <<>>)
           \o <<Call("set_download_delegate", "navigation_policy_handler")>>
    ELSE <<>>

\* the navigation group: the policy closure, the download flag, the download
\* delegate
NavigationGroupCalls(a) ==
  IF HasNavigationGroup(a)
    THEN <<Call("set_ivar", "navigation_policy_function"),
           Call("set_ivar", "HasDownloadHandler")>>
           \o DownloadDelegateCalls(a)
    ELSE <<>>

\* set_navigation_methods: the page load closure goes into its ivar
PageLoadCalls(a) ==
  IF page_load_handler(a) THEN <<Call("set_ivar", "on_page_load_function")>> ELSE <<>>

\* everything new registers with the native objects, up to the delegates
RegistrationCalls(a) ==
  ProtocolCalls(a)
    \o <<Call("initWithFrame", "config")>>
    \o IpcCalls(a)
    \o NavigationGroupCalls(a)
    \o PageLoadCalls(a)
    \o <<Call("setNavigationDelegate", "navigation_policy_handler"),
         Call("setUIDelegate", "ui_delegate")>>

AttachCalls == <<Call("addSubview", "webview"), Call("makeFirstResponder", "webview")>>

\* w.init(bootstrap), then w.init(js) for each initialization script
InitScriptCalls(c) ==
  <<Call("addUserScript", Bootstrap)>>
    \o [i \in DOMAIN c.initialization_scripts |->
          Call("addUserScript", c.initialization_scripts[i])]

\* value.to_str().unwrap_or_default(): the value when it is visible ASCII,
\* the empty string otherwise
ToStrOrDefault(value) == IF ToStrOk(value) THEN value ELSE <<>>

\* the header line a name and a value make: "name:value"
HeaderLine(name, value) == name \o <<58>> \o value

\* navigate_to_url: addValue:forHTTPHeaderField: for each configured header
AddValueCalls(headers) ==
  IF IsSome(headers)
    THEN [i \in DOMAIN Unwrap(headers) |->
            Call("addValue", HeaderLine(Unwrap(headers)[i][1],
                                        ToStrOrDefault(Unwrap(headers)[i][2])))]
    ELSE <<>>

\* the initial navigation: url first, html when there is no url
NavigationCalls(c) ==
  IF IsSome(c.url)
    THEN LET url == Unwrap(c.url)
             pos == Find(url.as_str, 44)
         IN IF url.cannot_be_a_base
              THEN IF pos # 0
                     THEN <<Call("loadHTMLString", SplitAfter(url.as_str, pos))>>
                     ELSE <<>>
              ELSE AddValueCalls(c.headers) \o <<Call("loadRequest", url.as_str)>>
    ELSE IF IsSome(c.html)
           THEN <<Call("loadHTMLString", Unwrap(c.html))>>
           ELSE <<>>

\* a new that starts the navigation before it installs the scripts
NewCalls_NavigateFirst(a, c) ==
  RegistrationCalls(a) \o NavigationCalls(c) \o InitScriptCalls(c) \o AttachCalls

\* a new that starts the navigation before it registers the handlers
NewCalls_RegisterLate(a, c) ==
  InitScriptCalls(c) \o NavigationCalls(c) \o RegistrationCalls(a) \o AttachCalls

NewCalls(a, c) ==
  RegistrationCalls(a) \o InitScriptCalls(c) \o NavigationCalls(c) \o AttachCalls

\* the attributes of a widget that was never built
Unbuilt == NoAttributes @@ NoContent

\* the kinds of RawWindowHandle a host can pass
WindowHandles == {"AppKit", "UiKit"}

\* match window { AppKit(w) => w, _ => unimplemented!() }: any other handle
\* panics before anything is built; every other path ends in Ok(w)
new(w, window, a, c) ==
  /\ ~crashed
  /\ life[w] = "absent"
  /\ new_result[w] = "none"
  /\ IF window = "AppKit"
       THEN /\ attrs' = [attrs EXCEPT ![w] = a @@ c]
            /\ life' = [life EXCEPT ![w] = "alive"]
            /\ slot' = [slot EXCEPT ![w] = NewSlots(a)]
            /\ msgHandler' = [msgHandler EXCEPT ![w] = a.ipc_handler]
            /\ inSuperview' = [inSuperview EXCEPT ![w] = TRUE]
            /\ retained' = [retained EXCEPT ![w] = {"webview", "manager"}]
            /\ nativeCalls' = [nativeCalls EXCEPT ![w] = NewCalls(a, c)]
            /\ new_result' = [new_result EXCEPT ![w] = "Ok"]
       ELSE /\ new_result' = [new_result EXCEPT ![w] = "panic"]
            /\ UNCHANGED <<attrs, life, slot, msgHandler, inSuperview, retained,
                           nativeCalls>>
  /\ pending_scripts' = [pending_scripts EXCEPT ![w] = NewPendingScripts]
  /\ UNCHANGED <<drop_i, releases, executed, evals, lockVars, hostVars, tasks>>

\* the widgets of B as new returns them, the others not built
InitBuilt(B, A, C) ==
  /\ \E f \in [B -> {a @@ c : a \in A, c \in C}] :
       attrs = [w \in Widgets |-> IF w \in B THEN f[w] ELSE Unbuilt]
  /\ life = [w \in Widgets |-> IF w \in B THEN "alive" ELSE "absent"]
  /\ drop_i = [w \in Widgets |-> 0]
  /\ slot = [w \in Widgets |-> IF w \in B THEN NewSlots(attrs[w]) ELSE NoSlots]
  /\ releases = [w \in Widgets |-> NoReleases]
  /\ msgHandler = [w \in Widgets |-> w \in B /\ attrs[w].ipc_handler]
  /\ inSuperview = [w \in Widgets |-> w \in B]
  /\ retained = [w \in Widgets |-> IF w \in B THEN {"webview", "manager"} ELSE {}]
  /\ nativeCalls =
       [w \in Widgets |-> IF w \in B THEN NewCalls(attrs[w], attrs[w]) ELSE <<>>]
  /\ new_result = [w \in Widgets |-> IF w \in B THEN "Ok" ELSE "none"]
  /\ ipcLog = [w \in Widgets |-> <<>>]
  /\ navLog = [w \in Widgets |-> <<>>]
  /\ useAfterFree = {}
  /\ crashed = FALSE
  /\ nEvents = 0
  /\ posted = [w \in Widgets |-> <<>>]
  /\ downloads = [w \in Widgets |-> <<>>]
  /\ tasks = <<>>
  /\ pending_scripts = [w \in Widgets |-> NewPendingScripts]
  /\ executed = [w \in Widgets |-> <<>>]
  /\ evals = [w \in Widgets |-> <<>>]
  /\ mutex = [w \in Widgets |-> "free"]
  /\ eval_call = [w \in Widgets |-> None]
  /\ flush_pc = [w \in Widgets |-> "idle"]
  /\ fired = [w \in Widgets |-> {}]

\* the state InnerEmbeddedWebview::new returns for w1; w2 is not built
InitWith(A) == InitBuilt({"w1"}, A, {NoContent})

\* Teardown of a widget, for every set of host handlers.
Init == InitWith(Attributes)

\* a well-formed request without a body, and one with a malformed method
RaceRequests ==
  {r \in NativeRequests :
     /\ r.HTTPBody = None
     /\ IsUri(r.uri)
     /\ \A i \in DOMAIN r.headers : IsToken(r.headers[i][1])}

NativeEvent ==
  \E w \in Widgets :
    \/ \E o \in UseAfterFreeOutcomes : did_receive(w, <<112, 105>>, o)
    \/ \E d \in BOOLEAN, m \in BOOLEAN, r \in BOOLEAN, o \in UseAfterFreeOutcomes :
         navigation_policy(w, d, m, r, o)
    \/ \E s \in Schemes, req \in RaceRequests, o \in UseAfterFreeOutcomes :
         start_task(w, s, req, o, "wrap")

Next == \E w \in Widgets : DropStep(w)

Spec == Init /\ [][Next]_vars

\* Teardown racing the native callbacks: the handlers a modelled trampoline
\* reads, in every combination.
RaceAttributes ==
  {a \in Attributes :
     /\ ~a.on_page_load_handler
     /\ ~a.download_completed_handler
     /\ a.custom_protocols \in {<<>>, <<"app">>}}

InitRace == InitWith(RaceAttributes)

NextRace ==
  \/ \E w \in Widgets : DropStep(w)
  \/ NativeEvent

SpecRace == InitRace /\ [][NextRace]_vars

\* The navigation delegate of a live widget, for every set of host handlers.
PolicyAttributes == {a \in Attributes : a.custom_protocols = <<>>}

InitPolicy == InitWith(PolicyAttributes)

NextPolicy ==
  \E w \in Widgets :
    \/ \E d \in BOOLEAN, m \in BOOLEAN, r \in BOOLEAN, o \in UseAfterFreeOutcomes :
         navigation_policy(w, d, m, r, o)
    \/ \E c \in BOOLEAN : navigation_policy_response(w, c)

SpecPolicy == InitPolicy /\ [][NextPolicy]_vars

\* Downloads of a live widget, for every set of navigation and download
\* handlers.
DownloadAttributes ==
  {a \in PolicyAttributes : ~a.ipc_handler /\ ~a.on_page_load_handler}

InitDownload == InitWith(DownloadAttributes)

NextDownload ==
  \E w \in Widgets :
    \/ \E d \in BOOLEAN, m \in BOOLEAN, r \in BOOLEAN, o \in UseAfterFreeOutcomes :
         navigation_policy(w, d, m, r, o)
    \/ \E c \in BOOLEAN : navigation_policy_response(w, c)
    \/ navigation_download(w)
    \/ \E i \in 1..MaxEvents, r \in BOOLEAN : download_policy(w, i, r)
    \/ \E i \in 1..MaxEvents : download_did_finish(w, i)
    \/ \E i \in 1..MaxEvents : download_did_fail(w, i)

SpecDownload == InitDownload /\ [][NextDownload]_vars

\* Construction of the widgets, with and without an ipc handler.
NewAttributes == {NoAttributes, [NoAttributes EXCEPT !.ipc_handler = TRUE]}

InitNew == InitBuilt({}, NewAttributes, Contents)

NextNew ==
  \E w \in Widgets :
    \/ \E a \in NewAttributes, c \in Contents : new(w, "AppKit", a, c)
    \/ \E h \in WindowHandles \ {"AppKit"} : new(w, h, NoAttributes, NoContent)

SpecNew == InitNew /\ [][NextNew]_vars

\* The ipc channel of widgets that are built while messages are posted, as
\* in the multi_window example.
InitIpc == InitBuilt({}, NewAttributes, {NoContent})

NextIpc ==
  \E w \in Widgets :
    \/ \E a \in NewAttributes : new(w, "AppKit", a, NoContent)
    \/ \E msg \in Messages, o \in UseAfterFreeOutcomes : did_receive(w, msg, o)

SpecIpc == InitIpc /\ [][NextIpc]_vars

\* Construction of one widget, for every set of host handlers and every
\* kind of initial content.
LoadContents == {c \in Contents : c.initialization_scripts = <<>>}

InitConstruct == InitBuilt({}, Attributes, LoadContents)

NextConstruct ==
  \E a \in Attributes, c \in LoadContents : new("w1", "AppKit", a, c)

SpecConstruct == InitConstruct /\ [][NextConstruct]_vars

\* The initial navigation of a widget, for every combination of url, inline
\* content and request headers.
InitNavigate == InitBuilt({}, {NoAttributes}, HeaderContents)

NextNavigate ==
  \E w \in Widgets, c \in HeaderContents : new(w, "AppKit", NoAttributes, c)

SpecNavigate == InitNavigate /\ [][NextNavigate]_vars

\* The custom protocol bridge of a live widget with the scheme "app".
ProtocolAttributes == {[NoAttributes EXCEPT !.custom_protocols = <<"app">>]}

InitProtocol == InitWith(ProtocolAttributes)

NextProtocol ==
  \/ \E w \in Widgets, s \in Schemes, req \in NativeRequests,
        o \in UseAfterFreeOutcomes : start_task(w, s, req, o, "wrap")
  \/ \E t \in 1..MaxTasks, resp \in HostResponses : respond(t, resp)
  \/ \E t \in 1..MaxTasks : drop_responder(t)
  \/ \E t \in 1..MaxTasks : stop_task(t)

SpecProtocol == InitProtocol /\ [][NextProtocol]_vars

\* The body of the request a scheme handler receives: requests with every
\* body stream, with and without a contiguous body.
StreamRequests ==
  [method : Methods, uri : Uris, headers : {<<>>},
   HTTPBody : HTTPBodies, HTTPBodyStream : {None} \cup {Some(q) : q \in Streams}]

NextBody ==
  \E w \in Widgets, req \in StreamRequests, o \in UseAfterFreeOutcomes,
     v \in OverflowOutcomes : start_task(w, "app", req, o, v)

SpecBody == InitProtocol /\ [][NextBody]_vars

\* Several widgets of one process, as the multi-window host keeps them: a
\* first widget is alive, a second one is created next to it, either one is
\* closed, and native events arrive for both. Every widget registers the
\* scheme "app", with or without an ipc and a navigation handler.
MultiAttributes ==
  {a \in Attributes :
     /\ a.custom_protocols = <<"app">>
     /\ a.navigation_handler = a.ipc_handler
     /\ ~a.new_window_req_handler
     /\ ~a.download_started_handler
     /\ ~a.download_completed_handler
     /\ ~a.on_page_load_handler}

InitMulti == InitWith(MultiAttributes)

MultiRequest ==
  [method |-> <<71, 69, 84>>, uri |-> <<97, 58, 47, 120>>, headers |-> <<>>,
   HTTPBody |-> None, HTTPBodyStream |-> None]

NextMulti ==
  \E w \in Widgets :
    \/ \E a \in MultiAttributes : new(w, "AppKit", a, NoContent)
    \/ DropStep(w)
    \/ \E o \in UseAfterFreeOutcomes : did_receive(w, <<105>>, o)
    \/ \E o \in UseAfterFreeOutcomes : navigation_policy(w, FALSE, TRUE, TRUE, o)
    \/ \E o \in UseAfterFreeOutcomes : start_task(w, "app", MultiRequest, o, "wrap")

SpecMulti == InitMulti /\ [][NextMulti]_vars

\* The script queue of a live widget.
InitScripts == InitWith({NoAttributes})

NextScripts ==
  \E w \in Widgets :
    \/ \E js \in Scripts, cb \in BOOLEAN : eval(w, js, cb)
    \/ flush_pending_scripts(w)
    \/ \E i \in 1..MaxScripts : completion_handler(w, i)

SpecScripts == InitScripts /\ [][NextScripts]_vars

\* An eval on the host thread racing the ready transition.
NextLock ==
  \E w \in Widgets :
    \/ \E js \in Scripts : eval_lock(w, js, FALSE)
    \/ eval_match(w)
    \/ eval_push(w)
    \/ eval_evaluate(w)
    \/ flush_lock(w)
    \/ flush_run(w)
    \/ flush_clear(w)

SpecLock == InitScripts /\ [][NextLock]_vars

(***************************************************************************)
(* Properties.                                                             *)
(***************************************************************************)
\* the slots of the navigation delegate and of its download delegate
DelegateSlots ==
  {"navigation_policy_function", "on_page_load_function", "started", "completed"}

\* a native-side registration through which native code can reach slot s:
\* the script message handler until it is removed; the navigation delegate
\* and the scheme handlers, which nothing unsets
Registered(w, s) ==
  /\ IvarNonNull(w, s)
  /\ CASE s = "ipc" -> msgHandler[w]
       [] s \in DelegateSlots -> life[w] # "absent"
       [] OTHER -> s \in Range(attrs[w].custom_protocols)

\* C1: in every interleaving of teardown with native callbacks, no host
\* closure is called once its slot has been released.
C1_NoCallAfterRelease == useAfterFree = {}

\* C2: a closure is released only after the widget has left its parent view
\* and every native registration that reaches the closure is gone.
C2_ReleaseAfterDetach ==
  \A w \in Widgets, s \in Slots :
    slot[w][s] = "freed" => ~inSuperview[w] /\ ~Registered(w, s)

\* C3: every slot registered by construction is released exactly once, by
\* teardown and not before it.
C3_ReleasedExactlyOnce ==
  \A w \in Widgets, s \in Slots :
    /\ life[w] = "alive" => releases[w][s] = 0
    /\ releases[w][s] <= 1
    /\ (life[w] = "dropped" /\ IvarNonNull(w, s)) => releases[w][s] = 1

FinishCount(task) ==
  Cardinality({i \in DOMAIN task.log : task.log[i].type = "didFinish"})

\* the native request cannot be turned into a generic request
Malformed(req) ==
  \/ ~IsUri(req.uri)
  \/ ~IsToken(req.method)
  \/ \E i \in DOMAIN req.headers :
       ~IsToken(req.headers[i][1]) \/ ~IsHeaderValue(req.headers[i][2])

\* the host has called the responder of the task
ResponderInvoked(task) == task.responder \in {"consumed", "panicked"}

\* C4: a task that is malformed or whose responder the host has called has
\* exactly one finish signal, and no task ever has more than one.
C4_ExactlyOneFinish ==
  \A t \in DOMAIN tasks :
    /\ FinishCount(tasks[t]) <= 1
    /\ (Malformed(tasks[t].native) \/ ResponderInvoked(tasks[t]))
         => FinishCount(tasks[t]) = 1

\* C5: a task whose request is malformed gets the 404 response and then the
\* finish signal, and the host protocol handler is not called for it.
C5_MalformedIs404 ==
  \A t \in DOMAIN tasks :
    Malformed(tasks[t].native) =>
      /\ Len(tasks[t].log) = 2
      /\ tasks[t].log[1].type = "didReceiveResponse"
      /\ tasks[t].log[1].status = 404
      /\ tasks[t].log[2].type = "didFinish"
      /\ tasks[t].request = None
      /\ tasks[t].responder = "none"

C5_Witness ==
  \E t \in DOMAIN tasks :
    /\ ~IsToken(tasks[t].native.method)
    /\ FinishCount(tasks[t]) = 1

\* C6: once the native side has stopped a task, a later call of its
\* responder sends nothing to the task.
C6_NoSignalAfterStop ==
  \A t \in DOMAIN tasks :
    tasks[t].stoppedAt # -1 => Len(tasks[t].log) = tasks[t].stoppedAt

\* C7: a task whose responder was called has received the metadata, then the
\* whole body as one data chunk, then the finish signal, each once.
C7_MetadataDataFinish ==
  \A t \in DOMAIN tasks :
    ResponderInvoked(tasks[t]) =>
      /\ [i \in DOMAIN tasks[t].log |-> tasks[t].log[i].type]
           = <<"didReceiveResponse", "didReceiveData", "didFinish">>
      /\ tasks[t].log[2].data = Unwrap(tasks[t].response).body

\* C8: the native response built for a host response carries the host's
\* status, its content-type when it has one, and a content-length equal to
\* the length of the body.
C8_ResponseMetadata ==
  \A t \in DOMAIN tasks :
    tasks[t].responder = "consumed" =>
      LET resp == Unwrap(tasks[t].response)
          native == tasks[t].log[1]
          mime == GetHeader(resp.headers, "content-type")
      IN /\ native.status = resp.status
         /\ native.headers["content-length"] = usize_to_string(Len(resp.body))
         /\ IsSome(mime) =>
              /\ "content-type" \in DOMAIN native.headers
              /\ native.headers["content-type"] = Unwrap(mime)

Buffered(e) == e.buffered
ViaFlush(c) == c.via = "flush"
Js(seq) == [i \in DOMAIN seq |-> seq[i].js]

\* the sources passed to eval while the queue was buffering, in call order
SubmittedWhileBuffering(w) == Js(SelectSeq(evals[w], Buffered))

\* C9: the sources submitted while buffering sit in the buffer in submission
\* order, and the flush executes exactly them in that order.
C9_FlushIsFifo ==
  \A w \in Widgets :
    IF IsSome(pending_scripts[w])
      THEN /\ Unwrap(pending_scripts[w]) = SubmittedWhileBuffering(w)
           /\ SelectSeq(executed[w], ViaFlush) = <<>>
      ELSE Js(SelectSeq(executed[w], ViaFlush)) = SubmittedWhileBuffering(w)

C9_Witness ==
  \E w \in Widgets :
    /\ pending_scripts[w] = None
    /\ Len(SubmittedWhileBuffering(w)) >= 3
    /\ SubmittedWhileBuffering(w)[1] # SubmittedWhileBuffering(w)[2]

\* C10: once the queue is flushed it stays flushed, and every eval call is
\* handed to the webview at once, after the calls made so far.
C10_FlushedRunsImmediately ==
  [][\A w \in Widgets :
       pending_scripts[w] = None =>
         /\ pending_scripts'[w] = None
         /\ evals'[w] # evals[w] =>
              LET e == evals'[w][Len(evals'[w])]
              IN executed'[w] = Append(executed[w], Evaluate(e.js, e.callback, "eval"))
    ]_vars

C10_Witness ==
  \E w \in Widgets :
    /\ pending_scripts[w] = None
    /\ \E i \in DOMAIN evals[w] : ~evals[w][i].buffered
    /\ \E i \in DOMAIN executed[w] : executed[w][i].via = "eval"

\* C11 as stated: a widget that is attached to the view hierarchy has a
\* flushed queue (the flip happens at the attachment).
C11_FlushedWhenAttached ==
  \A w \in Widgets : inSuperview[w] => pending_scripts[w] = None

\* C11: the queue of a widget that new has built and attached is still
\* buffering; the ready transition empties the buffer into the webview and
\* leaves the queue flushed; a flushed queue never buffers again, so the
\* flip happens at most once.
C11_FlipsOnceAfterAttach ==
  /\ \A w \in Widgets :
       life[w] = "alive" => inSuperview[w] /\ IsSome(pending_scripts[w])
  /\ [][\A w \in Widgets :
          /\ pending_scripts[w] = None => pending_scripts'[w] = None
          /\ (IsSome(pending_scripts[w]) /\ pending_scripts'[w] = None) =>
               /\ inSuperview[w]
               /\ evals'[w] = evals[w]
               /\ executed'[w] =
                    executed[w] \o FlushCalls(Unwrap(pending_scripts[w]))
       ]_vars

C11_Witness ==
  \E w \in Widgets :
    /\ inSuperview[w]
    /\ pending_scripts[w] = None
    /\ Len(evals[w]) = 2
    /\ evals[w][1].buffered
    /\ ~evals[w][2].buffered

Count(seq, js) == Cardinality({i \in DOMAIN seq : seq[i].js = js})
ViaEval(c) == c.via = "eval"
NotBuffered(e) == ~e.buffered
Quiescent(w) == eval_call[w] = None /\ flush_pc[w] = "idle"

\* C12: whatever the interleaving of an eval with the ready transition, no
\* source reaches the webview more often than it was submitted, and once
\* both have returned and the queue is flushed every submitted source has
\* reached it exactly once: the ones that found the buffer through the
\* flush, the others through their own call.
C12_RaceExecutesOnce ==
  \A w \in Widgets :
    /\ \A js \in Scripts : Count(executed[w], js) <= Count(evals[w], js)
    /\ (Quiescent(w) /\ pending_scripts[w] = None) =>
         /\ \A js \in Scripts : Count(executed[w], js) = Count(evals[w], js)
         /\ Js(SelectSeq(executed[w], ViaFlush)) = Js(SelectSeq(evals[w], Buffered))
         /\ Js(SelectSeq(executed[w], ViaEval)) = Js(SelectSeq(evals[w], NotBuffered))

\* an eval waited for the lock the flush held and then ran its source itself
C12_Witness ==
  \E w \in Widgets :
    /\ mutex[w] = "eval"
    /\ Unwrap(eval_call[w]).pc = "evaluate"
    /\ SelectSeq(executed[w], ViaFlush) # <<>>
    /\ \A i \in DOMAIN evals[w] : evals[w][i].buffered

Handler(seq) == [i \in DOMAIN seq |-> seq[i].completionHandler]
Callback(seq) == [i \in DOMAIN seq |-> seq[i].callback]

\* C13: a source that was buffered reaches the webview without a completion
\* handler, so the callback given with it never runs; an eval on a flushed
\* queue hands its callback to the webview with the call, and the callback
\* runs later, from the completion handler, never inside eval.
C13_CallbackOnlyWhenFlushed ==
  /\ [](\A w \in Widgets :
         /\ \A i \in DOMAIN executed[w] :
              executed[w][i].via = "flush" =>
                ~executed[w][i].completionHandler /\ i \notin fired[w]
         /\ Handler(SelectSeq(executed[w], ViaEval))
              = Callback(SelectSeq(evals[w], NotBuffered))
         /\ \A i \in fired[w] :
              executed[w][i].via = "eval" /\ executed[w][i].completionHandler)
  /\ [][\A w \in Widgets : evals'[w] # evals[w] => fired'[w] = fired[w]]_vars

C13_Witness ==
  \E w \in Widgets :
    /\ Len(evals[w]) >= 2
    /\ evals[w][1].buffered /\ evals[w][1].callback
    /\ ~evals[w][2].buffered /\ evals[w][2].callback
    /\ fired[w] = {2}

Cancel == 0
Allow == 1
Download == 2

\* the policy that carries a host handler's answer
PolicyOf(result) == IF result THEN Allow ELSE Cancel

\* C14: for a navigation action that is not a download, a main-frame action
\* gets the navigation handler's answer and any other frame the new-window
\* handler's answer; without that handler the action is allowed.
C14_NavigationFollowsHandler ==
  \A w \in Widgets : \A i \in DOMAIN navLog[w] :
    LET e == navLog[w][i]
        a == attrs[w]
    IN (e.kind = "action" /\ ~e.download) =>
         /\ (e.main /\ a.navigation_handler) =>
              e.called = "navigation" /\ e.decision = PolicyOf(e.result)
         /\ (e.main /\ ~a.navigation_handler) =>
              e.called = "none" /\ e.decision = Allow
         /\ (~e.main /\ a.new_window_req_handler) =>
              e.called = "new_window" /\ e.decision = PolicyOf(e.result)
         /\ (~e.main /\ ~a.new_window_req_handler) =>
              e.called = "none" /\ e.decision = Allow

\* a main-frame navigation the handler refuses, with every other handler set
C14_Witness ==
  \E w \in Widgets : \E i \in DOMAIN navLog[w] :
    LET e == navLog[w][i]
    IN /\ e.kind = "action" /\ ~e.download /\ e.main /\ ~e.result
       /\ e.decision = Cancel
       /\ attrs[w].navigation_handler
       /\ attrs[w].new_window_req_handler
       /\ attrs[w].download_started_handler

\* C15: a navigation action flagged as a download is routed to the download
\* path when a download-started handler is registered and cancelled when
\* none is, whatever other handlers are registered, and no host navigation
\* handler is asked.
C15_DownloadNeedsHandler ==
  \A w \in Widgets : \A i \in DOMAIN navLog[w] :
    LET e == navLog[w][i]
    IN (e.kind = "action" /\ e.download) =>
         /\ e.called = "none"
         /\ e.decision =
              IF attrs[w].download_started_handler THEN Download ELSE Cancel

\* a download is cancelled although both navigation handlers are registered
C15_Witness ==
  \E w \in Widgets : \E i \in DOMAIN navLog[w] :
    LET e == navLog[w][i]
    IN /\ e.kind = "action" /\ e.download /\ e.decision = Cancel
       /\ attrs[w].navigation_handler
       /\ attrs[w].new_window_req_handler
       /\ ~attrs[w].download_started_handler

\* C16: a navigation response is routed to the download path exactly when
\* the webview cannot show its MIME type and a download-started handler is
\* registered; every other response is allowed, none is cancelled.
C16_ResponseDownloadOrAllow ==
  \A w \in Widgets : \A i \in DOMAIN navLog[w] :
    LET e == navLog[w][i]
    IN e.kind = "response" =>
         /\ e.decision \in {Allow, Download}
         /\ e.decision = Download <=>
              (~e.can_show_mime_type /\ attrs[w].download_started_handler)

\* one response that cannot be shown is downloaded, and with no handler
\* registered it would be allowed
C16_Witness ==
  \E w \in Widgets :
    /\ Len(navLog[w]) = 2
    /\ navLog[w][1].kind = "response" /\ navLog[w][2].kind = "response"
    /\ ~navLog[w][1].can_show_mime_type /\ navLog[w][1].decision = Download
    /\ navLog[w][2].can_show_mime_type /\ navLog[w][2].decision = Allow

IsAddUserScript(c) == c.call = "addUserScript"
IsLoad(c) == c.call \in {"loadRequest", "loadHTMLString"}
Args(seq) == [i \in DOMAIN seq |-> seq[i].arg]

\* C18: the user scripts new installs are the ipc bootstrap script followed
\* by the host's initialization scripts in the order supplied, and each is
\* installed before new issues the initial navigation.
C18_ScriptsBeforeNavigation ==
  \A w \in Widgets :
    life[w] = "alive" =>
      LET calls == nativeCalls[w]
      IN /\ Args(SelectSeq(calls, IsAddUserScript))
              = <<Bootstrap>> \o attrs[w].initialization_scripts
         /\ \A i, j \in DOMAIN calls :
              (IsAddUserScript(calls[i]) /\ IsLoad(calls[j])) => i < j

\* two different initialization scripts and an initial navigation
C18_Witness ==
  \E w \in Widgets :
    /\ life[w] = "alive"
    /\ attrs[w].initialization_scripts = <<"b", "a">>
    /\ \E j \in DOMAIN nativeCalls[w] : IsLoad(nativeCalls[w][j])

\* C17: the ipc handler of a widget has received exactly the messages the
\* page of that widget posted, each once, unchanged and in posting order,
\* and nothing any other widget posted.
C17_DeliveredUnchanged ==
  \A w \in Widgets : ipcLog[w] = posted[w]

\* the lifecycle states of a built widget, read off its fields: Released
\* once a closure is freed or a native reference is given up, Detaching
\* when it is out of the view hierarchy with no handler registered
Released(w) ==
  /\ life[w] # "absent"
  /\ \/ \E s \in Slots : slot[w][s] = "freed"
     \/ retained[w] # {"webview", "manager"}

Detaching(w) ==
  /\ life[w] # "absent"
  /\ ~Released(w)
  /\ ~inSuperview[w]
  /\ \A s \in Slots : ~Registered(w, s)

\* C19: a widget enters Released only from Detaching: the step that frees
\* the first closure or gives up the first native reference starts from a
\* widget that is out of the view hierarchy with its handlers deregistered,
\* and a Released widget stays Released.
C19_ReleasedOnlyFromDetaching ==
  [][\A w \in Widgets :
       /\ Released(w) => Released(w)'
       /\ (~Released(w) /\ Released(w)') => Detaching(w)
    ]_vars

\* C20: a task of a well-formed request whose responder the host still
\* holds, or has dropped without calling it, has received no response
\* metadata, no data and no finish signal.
C20_NoResponseWithoutResponder ==
  \A t \in DOMAIN tasks :
    tasks[t].responder \in {"held", "dropped"} =>
      /\ ~Malformed(tasks[t].native)
      /\ tasks[t].log = <<>>
      /\ tasks[t].response = None

\* the host has dropped the responder of a request with a body, and the
\* native side has then stopped the task
C20_Witness ==
  \E t \in DOMAIN tasks :
    /\ tasks[t].responder = "dropped"
    /\ tasks[t].native.HTTPBody # None
    /\ tasks[t].stoppedAt = 0

\* C21: a call of new that fails ends in an error result, never in a
\* panic, and leaves nothing behind: the widget is not in the view
\* hierarchy, holds no closure, no native reference and no message handler.
C21_FailureIsReported ==
  \A w \in Widgets :
    /\ new_result[w] \in {"none", "Ok", "Err"}
    /\ new_result[w] = "Err" =>
         /\ ~inSuperview[w]
         /\ slot[w] = NoSlots
         /\ retained[w] = {}
         /\ ~msgHandler[w]

\* C22: teardown deregisters a handler only once the widget is out of the
\* view hierarchy, and a widget that has been torn down has no registration
\* left through which native code reaches one of its closures.
C22_DetachThenDeregister ==
  \A w \in Widgets :
    /\ (attrs[w].ipc_handler /\ life[w] # "absent" /\ ~msgHandler[w]) =>
         ~inSuperview[w]
    /\ life[w] = "dropped" => \A s \in Slots : ~Registered(w, s)

\* the slots the host asked for with its attributes
Requested(a) ==
  {s \in Slots :
     \/ s = "ipc" /\ a.ipc_handler
     \/ s = "navigation_policy_function"
          /\ (a.navigation_handler \/ a.new_window_req_handler)
     \/ s = "started" /\ a.download_started_handler
     \/ s = "completed" /\ a.download_completed_handler
     \/ s = "on_page_load_function" /\ a.on_page_load_handler
     \/ s \in Range(a.custom_protocols)}

IsAttach(c) == c.call = "addSubview"

\* the closure of slot s is stored, and its handler object registered,
\* before the initial navigation
RegisteredBeforeLoad(calls, s) ==
  /\ \E i \in DOMAIN calls :
       /\ calls[i] = Call("set_ivar", s)
       /\ \A j \in DOMAIN calls : IsLoad(calls[j]) => i < j
  /\ \A i, j \in DOMAIN calls :
       (/\ calls[i].call \in {"setURLSchemeHandler", "addScriptMessageHandler",
                              "set_download_delegate", "setNavigationDelegate"}
        /\ IsLoad(calls[j])) => i < j

LoadBeforeAttach(calls) ==
  \A i, j \in DOMAIN calls : (IsLoad(calls[i]) /\ IsAttach(calls[j])) => i < j

\* C23 as stated: every slot the host asked for is registered before the
\* initial navigation, and the navigation is issued before the attachment.
C23_RequestedRegisteredFirst ==
  \A w \in Widgets :
    life[w] = "alive" =>
      /\ \A s \in Requested(attrs[w]) : RegisteredBeforeLoad(nativeCalls[w], s)
      /\ LoadBeforeAttach(nativeCalls[w])

\* C23: every slot the host asked for is registered before the initial
\* navigation, except a download-completed handler given without a
\* navigation, new-window or download-started handler, which is never
\* registered; the navigation is issued before the attachment.
C23_RegisteredBeforeNavigation ==
  \A w \in Widgets :
    life[w] = "alive" =>
      LET a == attrs[w]
          alone == /\ ~a.navigation_handler
                   /\ ~a.new_window_req_handler
                   /\ ~a.download_started_handler
      IN /\ \A s \in Requested(a) :
              IF s = "completed" /\ alone
                THEN \A i \in DOMAIN nativeCalls[w] :
                       nativeCalls[w][i] # Call("set_ivar", s)
                ELSE RegisteredBeforeLoad(nativeCalls[w], s)
         /\ LoadBeforeAttach(nativeCalls[w])

\* every kind of handler, a custom protocol and an initial url
C23_Witness ==
  \E w \in Widgets :
    /\ life[w] = "alive"
    /\ Requested(attrs[w]) = FixedSlots \cup {"app"}
    /\ \E j \in DOMAIN nativeCalls[w] : nativeCalls[w][j].call = "loadRequest"

\* C24: teardown gives up the references to the webview and to the manager
\* only when no closure of the widget is left unreleased and the webview is
\* out of its parent view, and when teardown is over both are given up.
C24_NativeRefsLast ==
  \A w \in Widgets :
    /\ (life[w] # "absent" /\ retained[w] # {"webview", "manager"}) =>
         /\ \A s \in Slots : slot[w][s] # "live"
         /\ ~inSuperview[w]
    /\ life[w] = "dropped" => retained[w] = {}

RECURSIVE Concat(_)
\* the bytes of the successful reads of a stream, in order
Concat(reads) ==
  IF reads = <<>> THEN <<>>
  ELSE (IF Head(reads).count > 0 THEN Head(reads).bytes ELSE <<>>) \o Concat(Tail(reads))

ExpectedBody(native) ==
  IF IsSome(native.HTTPBody) THEN Unwrap(native.HTTPBody)
  ELSE IF IsSome(native.HTTPBodyStream) THEN Concat(Unwrap(native.HTTPBodyStream))
  ELSE <<>>

\* C25: the body of the request handed to the host protocol handler is the
\* contiguous body when the native request has one, otherwise the in-order
\* concatenation of every chunk read from its body stream, otherwise empty.
C25_BodyIsWhatWasSent ==
  \A t \in DOMAIN tasks :
    IsSome(tasks[t].request) =>
      Unwrap(tasks[t].request).body = ExpectedBody(tasks[t].native)

\* a request whose stream was drained without a failed read reached the
\* handler with its chunks concatenated
C25_Drained ==
  \E t \in DOMAIN tasks :
    /\ IsSome(tasks[t].request)
    /\ tasks[t].native.HTTPBody = None
    /\ IsSome(tasks[t].native.HTTPBodyStream)
    /\ Len(Unwrap(tasks[t].native.HTTPBodyStream)) = MaxReads
    /\ Unwrap(tasks[t].request).body = Concat(Unwrap(tasks[t].native.HTTPBodyStream))

\* the decision handler of widget w has been called exactly once in this step
DecidedOnce(w) ==
  /\ Len(navLog'[w]) = Len(navLog[w]) + 1
  /\ SubSeq(navLog'[w], 1, Len(navLog[w])) = navLog[w]
  /\ \A v \in Widgets \ {w} : navLog'[v] = navLog[v]

\* C26: every invocation of the navigation action policy callback and of
\* the navigation response policy callback calls the decision handler
\* exactly once, whichever path it takes.
C26_DecisionHandlerCalledOnce ==
  [][nEvents' # nEvents => \E w \in Widgets : DecidedOnce(w)]_vars

\* the response callback has taken its early return (download) and the
\* action callback has gone through the navigation closure
C26_Witness ==
  \E w \in Widgets :
    /\ Len(navLog[w]) = 2
    /\ \E i \in DOMAIN navLog[w] :
         navLog[w][i].kind = "response" /\ navLog[w][i].decision = 2
    /\ \E i \in DOMAIN navLog[w] :
         navLog[w][i].kind = "action" /\ navLog[w][i].called # "none"

\* the host handler an action that is not a download goes to
HandlerOf(a, main) ==
  IF main /\ a.navigation_handler THEN "navigation"
  ELSE IF ~main /\ a.new_window_req_handler THEN "new_window"
  ELSE "none"

\* C27: the download flag takes priority: an action flagged as a download
\* invokes neither the navigation handler nor the new-window handler; an
\* action that is not flagged invokes the configured handler of its frame
\* kind, once.
C27_DownloadFlagFirst ==
  \A w \in Widgets : \A i \in DOMAIN navLog[w] :
    LET e == navLog[w][i]
    IN e.kind = "action" =>
         e.called = (IF e.download THEN "none" ELSE HandlerOf(attrs[w], e.main))

\* a widget with a navigation handler has decided a download action and a
\* main-frame action that is not a download
C27_Witness ==
  \E w \in Widgets :
    /\ attrs[w].navigation_handler
    /\ \E i \in DOMAIN navLog[w] :
         /\ navLog[w][i].kind = "action"
         /\ navLog[w][i].download /\ navLog[w][i].main
    /\ \E i \in DOMAIN navLog[w] :
         /\ navLog[w][i].kind = "action"
         /\ ~navLog[w][i].download /\ navLog[w][i].called = "navigation"

\* every slot construction registered for w is still registered, unreleased
\* and safe to call
Untouched(w) ==
  /\ slot[w] = NewSlots(attrs[w])
  /\ releases[w] = NoReleases
  /\ msgHandler[w] = attrs[w].ipc_handler
  /\ inSuperview[w]
  /\ retained[w] = {"webview", "manager"}
  /\ \A s \in Slots : <<w, s>> \notin useAfterFree

\* C28: with several widgets alive, registering the same scheme name, each
\* widget owns its slots: the teardown of one widget releases only that
\* widget's slots, and whatever happens to the others, a widget that has
\* not been torn down keeps every slot registered, unreleased and
\* invocable; the events of one widget reach only its own closures.
C28_WidgetsOwnTheirSlots ==
  \A w \in Widgets :
    /\ life[w] = "alive" => Untouched(w)
    /\ life[w] = "absent" => slot[w] = NoSlots /\ releases[w] = NoReleases
    /\ Len(ipcLog[w]) <= Len(posted[w])
    /\ \A i \in DOMAIN navLog[w] :
         navLog[w][i].called = "navigation" => attrs[w].navigation_handler
    /\ \A t \in DOMAIN tasks :
         tasks[t].widget = w /\ IsSome(tasks[t].request) =>
           "app" \in Range(attrs[w].custom_protocols)

\* one widget has been torn down entirely, and after that the other one,
\* which registered the same scheme, has served a request and an ipc message
C28_Witness ==
  \E w \in Widgets, v \in Widgets :
    /\ w # v
    /\ life[w] = "dropped"
    /\ releases[w]["app"] = 1
    /\ life[v] = "alive"
    /\ \E t \in DOMAIN tasks : tasks[t].widget = v /\ tasks[t].responder = "held"
    /\ ipcLog[v] # <<>>

Select(seq, P(_)) ==
  LET F[i \in 0..Len(seq)] ==
        IF i = 0 THEN <<>>
        ELSE IF P(seq[i]) THEN Append(F[i - 1], seq[i]) ELSE F[i - 1]
  IN F[Len(seq)]

IsAddValue(c) == c.call = "addValue"

\* the navigation the configured content asks for
ExpectedLoad(c) ==
  IF c.url # None
    THEN IF ~c.url[1].cannot_be_a_base
           THEN <<Call("loadRequest", c.url[1].as_str)>>
           ELSE IF \E i \in DOMAIN c.url[1].as_str : c.url[1].as_str[i] = 44
                  THEN LET p == CHOOSE i \in DOMAIN c.url[1].as_str :
                                  /\ c.url[1].as_str[i] = 44
                                  /\ \A j \in 1..(i - 1) : c.url[1].as_str[j] # 44
                       IN <<Call("loadHTMLString",
                                 [k \in 1..(Len(c.url[1].as_str) - p) |->
                                    c.url[1].as_str[p + k]])>>
                  ELSE <<>>
    ELSE IF c.html # None THEN <<Call("loadHTMLString", c.html[1])>> ELSE <<>>

\* the headers the configured content asks for, on a url request
ExpectedHeaders(c) ==
  IF c.url # None /\ ~c.url[1].cannot_be_a_base /\ c.headers # None
    THEN [i \in DOMAIN c.headers[1] |->
            c.headers[1][i][1] \o <<58>> \o c.headers[1][i][2]]
    ELSE <<>>

\* C29: construction issues at most one initial navigation. A url wins over
\* inline content: a hierarchical url is loaded as a request carrying the
\* configured headers, a url that cannot be a base loads the text after its
\* first comma as inline content and nothing when it has no comma; inline
\* content is loaded only when there is no url; with neither, nothing is
\* loaded.
C29_OneInitialNavigation ==
  \A w \in Widgets :
    life[w] = "alive" =>
      /\ Select(nativeCalls[w], IsLoad) = ExpectedLoad(attrs[w])
      /\ Args(Select(nativeCalls[w], IsAddValue)) = ExpectedHeaders(attrs[w])

\* a widget built from a hierarchical url, inline content and a header
C29_Witness ==
  \E w \in Widgets :
    /\ life[w] = "alive"
    /\ attrs[w].url # None /\ attrs[w].html # None /\ attrs[w].headers # None
    /\ ~attrs[w].url[1].cannot_be_a_base
    /\ attrs[w].headers[1] # <<>>
    /\ Len(Select(nativeCalls[w], IsLoad)) = 1

\* the completed handler of w has been called for some download
CompletedFired(w) ==
  \E i \in DOMAIN downloads[w] :
    \E k \in DOMAIN downloads[w][i].log :
      downloads[w][i].log[k] \in {"finished", "failed"}

\* C30: the download-completed handler is registered only when a
\* navigation, new-window or download-started handler is configured with
\* it; configured alone it is neither registered nor invoked. A load is
\* routed to the download pipeline only when a download-started handler is
\* registered, so a completed handler without a started handler never
\* fires.
C30_CompletedNeedsStarted ==
  \A w \in Widgets :
    life[w] = "alive" =>
      /\ slot[w]["completed"] = "live" <=>
            /\ attrs[w].download_completed_handler
            /\ \/ attrs[w].navigation_handler
               \/ attrs[w].new_window_req_handler
               \/ attrs[w].download_started_handler
      /\ downloads[w] # <<>> => attrs[w].download_started_handler
      /\ CompletedFired(w) =>
            attrs[w].download_started_handler /\ attrs[w].download_completed_handler

\* a widget whose completed handler is registered has had every decision
\* routed to the download pipeline, and its completed handler has been told
\* of the end of a download
C30_Witness ==
  \E w \in Widgets :
    /\ life[w] = "alive"
    /\ slot[w]["completed"] = "live"
    /\ CompletedFired(w)
    /\ Len(downloads[w]) = MaxEvents
====
